---- MODULE Spec2Model ----
(***************************************************************************)
(* Model of the GripAndReview online bot: the YouTube search client, the   *)
(* transcript fetcher with its three-tier fallback chain, the comment      *)
(* fetcher, the batch coordinator and the Streamlit session handlers.      *)
(*                                                                         *)
(* Python strings are sequences of one-character strings, so that strip,   *)
(* join, concatenation and the regular-expression search are computed.     *)
(* A call result is a record [kind, value, ...]: kind = "return" carries   *)
(* the returned value, kind = "raise" the name of the exception.           *)
(***************************************************************************)
EXTENDS Integers, Sequences, FiniteSets, TLC

VARIABLES session_state, call, ret

vars == <<session_state, call, ret>>

\* ------------------------------------------------------------------ bounds
MaxVideos == 3
MaxLimit == 4
MaxComments == 3
MaxEntries == 3
MaxResults == 2

\* ------------------------------------------------------- program constants
IdLen == 11
HTTP_OK == 200
SliderMin == 5
CommentSliderMin == 10

\* ---------------------------------------------------------------- strings
Whitespace == {" ", "\t", "\n"}

Digits == {"0", "1", "2", "3", "4", "5", "6", "7", "8", "9"}

Lower == {"a", "b", "c", "d", "e", "f", "g", "h", "i", "j", "k", "l", "m",
          "n", "o", "p", "q", "r", "s", "t", "u", "v", "w", "x", "y", "z"}

Upper == {"A", "B", "C", "D", "E", "F", "G", "H", "I", "J", "K", "L", "M",
          "N", "O", "P", "Q", "R", "S", "T", "U", "V", "W", "X", "Y", "Z"}

\* the character class [0-9A-Za-z_-]
IdChars == Digits \cup Lower \cup Upper \cup {"_", "-"}

RECURSIVE LStrip(_)
LStrip(s) ==
    IF s = <<>> THEN <<>>
    ELSE IF Head(s) \in Whitespace THEN LStrip(Tail(s)) ELSE s

RECURSIVE RStrip(_)
RStrip(s) ==
    IF s = <<>> THEN <<>>
    ELSE IF s[Len(s)] \in Whitespace THEN RStrip(SubSeq(s, 1, Len(s) - 1)) ELSE s

\* str.strip()
Strip(s) == RStrip(LStrip(s))

\* " ".join(parts)
RECURSIVE Join(_)
Join(parts) ==
    IF parts = <<>> THEN <<>>
    ELSE IF Len(parts) = 1 THEN parts[1]
    ELSE parts[1] \o <<" ">> \o Join(Tail(parts))

\* xs[:n] for n >= 0
Take(xs, n) == SubSeq(xs, 1, IF n < Len(xs) THEN n ELSE Len(xs))

Min(a, b) == IF a < b THEN a ELSE b

Returned(v) == [kind |-> "return", value |-> v]
Raised(exc) == [kind |-> "raise", value |-> exc]

\* -------------------------------------------------------- extract_video_id
\* the token start for a match of (?:v=|\/) beginning at position i, 0 if none
TokenStart(url, i) ==
    IF url[i] = "v" /\ i + 1 <= Len(url) /\ url[i + 1] = "=" THEN i + 2
    ELSE IF url[i] = "/" THEN i + 1
    ELSE 0

\* the pattern (?:v=|\/)([0-9A-Za-z_-]{11}).* matches starting at position i
MatchAt(url, i) ==
    LET t == TokenStart(url, i)
    IN  /\ t # 0
        /\ t + IdLen - 1 <= Len(url)
        /\ \A j \in t..(t + IdLen - 1) : url[j] \in IdChars

extract_video_id(url) ==
    LET hits == {i \in 1..Len(url) : MatchAt(url, i)}
    IN  IF hits = {} THEN Raised("ValueError")
        ELSE LET first == CHOOSE i \in hits : \A j \in hits : i <= j
                 t == TokenStart(url, first)
             IN  Returned(SubSeq(url, t, t + IdLen - 1))

\* ------------------------------------------------- provider responses
\* a JSON body: json is "invalid" (not parsable), "object", "array" or
\* "number"; fields are the members of an object, items those of an array
Body(json, fields, items) == [json |-> json, fields |-> fields, items |-> items]

NoFields == [k \in {} |-> <<>>]

\* response.json()
Json(body) == IF body.json = "invalid" THEN Raised("ValueError") ELSE Returned(body)

\* key in value, for a parsed JSON value
Contains(body, key) ==
    CASE body.json = "object" -> Returned(key \in DOMAIN body.fields)
      [] body.json = "array" -> Returned(\E i \in 1..Len(body.items) : body.items[i] = key)
      [] OTHER -> Raised("TypeError")

\* value[key], for a parsed JSON value and a string key
Subscript(body, key) ==
    IF body.json = "object"
    THEN IF key \in DOMAIN body.fields THEN Returned(body.fields[key]) ELSE Raised("KeyError")
    ELSE Raised("TypeError")

\* value.get(key, ""), for a parsed JSON value
GetOrEmpty(body, key) ==
    IF body.json = "object"
    THEN Returned(IF key \in DOMAIN body.fields THEN body.fields[key] ELSE <<>>)
    ELSE Raised("AttributeError")

\* ------------------------------------------------- fetch_transcript_online
\* [t["text"] for t in transcript_data if t["text"].strip()]
RECURSIVE NonBlankTexts(_)
NonBlankTexts(data) ==
    IF data = <<>> THEN <<>>
    ELSE (IF Strip(Head(data).text) # <<>> THEN <<Head(data).text>> ELSE <<>>)
         \o NonBlankTexts(Tail(data))

\* one tier's outcome: ok says whether the tier returned, text what it
\* returned, log the messages it sent to the sink
Tier(ok, text, log) == [ok |-> ok, text |-> text, log |-> log]

\* lines 45-57: the primary provider
PrimaryTier(primary) ==
    CASE primary.kind = "ok" ->
            Tier(TRUE, Join(NonBlankTexts(primary.data)), <<"primary:start", "primary:found">>)
      [] primary.kind = "TranscriptsDisabled" ->
            Tier(FALSE, <<>>, <<"primary:start", "primary:disabled">>)
      [] primary.kind = "NoTranscriptFound" ->
            Tier(FALSE, <<>>, <<"primary:start", "primary:notfound">>)
      [] OTHER ->
            Tier(FALSE, <<>>, <<"primary:start", "primary:error">>)

\* lines 62-70: the NoteGPT proxy
ProxyTier(proxy) ==
    IF proxy.kind = "exception" THEN Tier(FALSE, <<>>, <<"proxy:error">>)
    ELSE IF proxy.status # HTTP_OK THEN Tier(FALSE, <<>>, <<>>)
    ELSE IF Json(proxy.body).kind = "raise" THEN Tier(FALSE, <<>>, <<"proxy:error">>)
    ELSE LET has == Contains(proxy.body, "text")
             got == Subscript(proxy.body, "text")
         IN  IF has.kind = "raise" THEN Tier(FALSE, <<>>, <<"proxy:error">>)
             ELSE IF ~has.value THEN Tier(FALSE, <<>>, <<>>)
             ELSE IF got.kind = "raise" THEN Tier(FALSE, <<>>, <<"proxy:error">>)
             ELSE Tier(TRUE, got.value, <<"proxy:ok">>)

\* mutant: title and author are concatenated without the " - " separator
MetaTier_noseparator(meta) ==
    IF meta.kind = "exception" \/ Json(meta.body).kind = "raise"
    THEN Tier(FALSE, <<>>, <<"meta:start", "meta:error">>)
    ELSE LET title == GetOrEmpty(meta.body, "title")
             author == GetOrEmpty(meta.body, "author_name")
         IN  IF title.kind = "raise" \/ author.kind = "raise"
             THEN Tier(FALSE, <<>>, <<"meta:start", "meta:error">>)
             ELSE Tier(TRUE, title.value \o author.value, <<"meta:start", "meta:ok">>)

\* lines 75-84: the oEmbed metadata lookup
MetaTier(meta) ==
    IF meta.kind = "exception" \/ Json(meta.body).kind = "raise"
    THEN Tier(FALSE, <<>>, <<"meta:start", "meta:error">>)
    ELSE LET title == GetOrEmpty(meta.body, "title")
             author == GetOrEmpty(meta.body, "author_name")
         IN  IF title.kind = "raise" \/ author.kind = "raise"
             THEN Tier(FALSE, <<>>, <<"meta:start", "meta:error">>)
             ELSE Tier(TRUE, title.value \o <<" ", "-", " ">> \o author.value,
                       <<"meta:start", "meta:ok">>)

\* the result of a fetch: the call result, the messages logged and the
\* providers contacted, in order
Fetched(kind, value, log, contacted) ==
    [kind |-> kind, value |-> value, log |-> log, contacted |-> contacted]

\* mutant: the metadata lookup is tried before the proxy
fetch_transcript_online_swapped(video_url, primary, proxy, meta) ==
    LET video_id == extract_video_id(video_url)
        p1 == PrimaryTier(primary)
        p2 == MetaTier(meta)
        p3 == ProxyTier(proxy)
    IN  IF video_id.kind = "raise" THEN Fetched("raise", video_id.value, <<>>, <<>>)
        ELSE IF p1.ok THEN Fetched("return", p1.text, p1.log, <<"primary">>)
        ELSE IF p2.ok THEN Fetched("return", p2.text, p1.log \o p2.log, <<"primary", "metadata">>)
        ELSE IF p3.ok THEN Fetched("return", p3.text, p1.log \o p2.log \o p3.log,
                                   <<"primary", "metadata", "proxy">>)
        ELSE Fetched("return", <<>>, p1.log \o p2.log \o p3.log,
                     <<"primary", "metadata", "proxy">>)

\* mutant: the last tier has no exception handler, its failure propagates
fetch_transcript_online_unguarded(video_url, primary, proxy, meta) ==
    LET video_id == extract_video_id(video_url)
        p1 == PrimaryTier(primary)
        p2 == ProxyTier(proxy)
        p3 == MetaTier(meta)
    IN  IF video_id.kind = "raise" THEN Fetched("raise", video_id.value, <<>>, <<>>)
        ELSE IF p1.ok THEN Fetched("return", p1.text, p1.log, <<"primary">>)
        ELSE IF p2.ok THEN Fetched("return", p2.text, p1.log \o p2.log, <<"primary", "proxy">>)
        ELSE IF p3.ok THEN Fetched("return", p3.text, p1.log \o p2.log \o p3.log,
                                   <<"primary", "proxy", "metadata">>)
        ELSE Fetched("raise", "Exception", p1.log \o p2.log \o <<"meta:start">>,
                     <<"primary", "proxy", "metadata">>)

\* mutant: the three providers are all asked before the first answer is used
fetch_transcript_online_eager(video_url, primary, proxy, meta) ==
    LET video_id == extract_video_id(video_url)
        p1 == PrimaryTier(primary)
        p2 == ProxyTier(proxy)
        p3 == MetaTier(meta)
        all == <<"primary", "proxy", "metadata">>
    IN  IF video_id.kind = "raise" THEN Fetched("raise", video_id.value, <<>>, <<>>)
        ELSE IF p1.ok THEN Fetched("return", p1.text, p1.log, all)
        ELSE IF p2.ok THEN Fetched("return", p2.text, p1.log \o p2.log, all)
        ELSE IF p3.ok THEN Fetched("return", p3.text, p1.log \o p2.log \o p3.log, all)
        ELSE Fetched("return", <<>>, p1.log \o p2.log \o p3.log, all)

fetch_transcript_online(video_url, primary, proxy, meta) ==
    LET video_id == extract_video_id(video_url)
        p1 == PrimaryTier(primary)
        p2 == ProxyTier(proxy)
        p3 == MetaTier(meta)
    IN  IF video_id.kind = "raise" THEN Fetched("raise", video_id.value, <<>>, <<>>)
        ELSE IF p1.ok THEN Fetched("return", p1.text, p1.log, <<"primary">>)
        ELSE IF p2.ok THEN Fetched("return", p2.text, p1.log \o p2.log, <<"primary", "proxy">>)
        ELSE IF p3.ok THEN Fetched("return", p3.text, p1.log \o p2.log \o p3.log,
                                   <<"primary", "proxy", "metadata">>)
        ELSE Fetched("return", <<>>, p1.log \o p2.log \o p3.log,
                     <<"primary", "proxy", "metadata">>)

\* ---------------------------------------------- save_transcript_to_session
NoDict == [k \in {} |-> <<>>]

\* d[k] = v on a dict
Put(d, k, v) == [x \in (DOMAIN d) \cup {k} |-> IF x = k THEN v ELSE d[x]]

\* mutant: the mapping is replaced by one that holds the new entry only
save_transcript_to_session_replacing(state, video_url, text) ==
    Put(state, "transcripts", Put(NoDict, video_url, text))

save_transcript_to_session(state, video_url, text) ==
    LET created == IF "transcripts" \in DOMAIN state THEN state
                   ELSE Put(state, "transcripts", NoDict)
    IN  Put(created, "transcripts", Put(created["transcripts"], video_url, text))

\* ---------------------------------------------- fetch_multiple_transcripts
\* a progress value num/den, as reported to the progress bar
Fraction(num, den) == <<num, den>>

\* line 119: progress.progress((idx + 1) / limit), idx counted from 0
ReportedProgress(idx, limit) == Fraction(idx + 1, limit)

\* the answers of the three providers for one video
NoAnswer ==
    [primary |-> [kind |-> "Exception", data |-> <<>>],
     proxy |-> [kind |-> "exception", status |-> 0, body |-> Body("invalid", NoFields, <<>>)],
     meta |-> [kind |-> "exception", status |-> 0, body |-> Body("invalid", NoFields, <<>>)]]

AnswerFor(world, url) == IF url \in DOMAIN world THEN world[url] ELSE NoAnswer

\* the state of a batch: what the call did so far
Batch(kind, value, state, progress) ==
    [kind |-> kind, value |-> value, state |-> state, progress |-> progress]

\* lines 113-120: the loop body for items[i] (idx = i - 1), then the rest
RECURSIVE TranscriptLoop(_, _, _, _, _)
TranscriptLoop(items, i, limit, world, acc) ==
    IF i > Len(items) THEN acc
    ELSE LET url == items[i].url
             a == AnswerFor(world, url)
             r == fetch_transcript_online(url, a.primary, a.proxy, a.meta)
         IN  IF r.kind = "raise" THEN Batch("raise", r.value, acc.state, acc.progress)
             ELSE TranscriptLoop(items, i + 1, limit, world,
                      Batch("return", Put(acc.value, url, r.value),
                            save_transcript_to_session(acc.state, url, r.value),
                            Append(acc.progress, ReportedProgress(i - 1, limit))))

fetch_multiple_transcripts(state, videos, limit, world) ==
    IF videos = <<>> THEN Batch("return", NoDict, state, <<>>)
    ELSE TranscriptLoop(Take(videos, limit), 1, limit, world,
                        Batch("return", NoDict, state, <<>>))

\* ---------------------------------------------------- fetch_comments_online
\* f"{author}: {text}"
FormatComment(author, text) == author \o <<":", " ">> \o text

Anonim == <<"A", "n", "o", "n", "i", "m">>

\* c.get(key, default) on one comment entry; an entry that is not a mapping raises
EntryGet(c, key, default) ==
    IF c.t # "dict" THEN Raised("AttributeError")
    ELSE Returned(IF key \in DOMAIN c.fields THEN c.fields[key] ELSE default)

\* the result of a comment fetch: the list returned and whether st.warning ran
Comments(value, warned) == [kind |-> "return", value |-> value, warned |-> warned]

\* mutant: a failure inside the loop is swallowed without a warning and the
\* loop goes on with the next entry
RECURSIVE CommentLoop_silent(_, _, _)
CommentLoop_silent(entries, i, comments_list) ==
    IF i > Len(entries) THEN Comments(comments_list, FALSE)
    ELSE LET text == EntryGet(entries[i], "text", <<>>)
             author == EntryGet(entries[i], "author", Anonim)
         IN  IF text.kind = "raise" \/ author.kind = "raise"
             THEN CommentLoop_silent(entries, i + 1, comments_list)
             ELSE CommentLoop_silent(entries, i + 1,
                      IF Strip(text.value) # <<>>
                      THEN Append(comments_list, FormatComment(author.value, Strip(text.value)))
                      ELSE comments_list)

\* lines 94-98: the loop over comments[:max_comments], from entry i on
RECURSIVE CommentLoop(_, _, _)
CommentLoop(entries, i, comments_list) ==
    IF i > Len(entries) THEN Comments(comments_list, FALSE)
    ELSE LET text == EntryGet(entries[i], "text", <<>>)
             author == EntryGet(entries[i], "author", Anonim)
         IN  IF text.kind = "raise" \/ author.kind = "raise"
             THEN Comments(comments_list, TRUE)
             ELSE CommentLoop(entries, i + 1,
                      IF Strip(text.value) # <<>>
                      THEN Append(comments_list, FormatComment(author.value, Strip(text.value)))
                      ELSE comments_list)

\* mutant: the provider's list is not cut to max_comments
fetch_comments_online_uncut(video_url, max_comments, info) ==
    IF info.kind = "exception" THEN Comments(<<>>, TRUE)
    ELSE CommentLoop(IF info.has_comments THEN info.comments ELSE <<>>, 1, <<>>)

fetch_comments_online(video_url, max_comments, info) ==
    IF info.kind = "exception" THEN Comments(<<>>, TRUE)
    ELSE CommentLoop(Take(IF info.has_comments THEN info.comments ELSE <<>>, max_comments),
                     1, <<>>)

\* ---------------------------------------------------- search_youtube_online
\* "https://www.youtube.com/watch?v="
WatchPrefix ==
    <<"h", "t", "t", "p", "s", ":", "/", "/", "w", "w", "w", ".", "y", "o", "u",
      "t", "u", "b", "e", ".", "c", "o", "m", "/", "w", "a", "t", "c", "h", "?",
      "v", "=">>

\* line 66: f"https://www.youtube.com/watch?v={video_id}"
WatchUrl(video_id) == WatchPrefix \o video_id

DigitValue(c) ==
    CASE c = "0" -> 0 [] c = "1" -> 1 [] c = "2" -> 2 [] c = "3" -> 3 [] c = "4" -> 4
      [] c = "5" -> 5 [] c = "6" -> 6 [] c = "7" -> 7 [] c = "8" -> 8 [] c = "9" -> 9

\* int(s) for a string of decimal digits
RECURSIVE ParseInt(_)
ParseInt(s) ==
    IF s = <<>> THEN 0
    ELSE 10 * ParseInt(SubSeq(s, 1, Len(s) - 1)) + DigitValue(s[Len(s)])

\* int(stats.get(key, 0))
Count(statistics, key) ==
    IF key \in DOMAIN statistics THEN ParseInt(statistics[key]) ELSE 0

\* s.split("T")[0]
RECURSIVE BeforeT(_)
BeforeT(s) ==
    IF s = <<>> \/ Head(s) = "T" THEN <<>> ELSE <<Head(s)>> \o BeforeT(Tail(s))

\* lines 56-58: stats_res["items"][0]["statistics"] of the statistics request
Statistics(lookup) ==
    IF lookup.kind = "exception" THEN Raised("HttpError")
    ELSE IF lookup.items = <<>> THEN Raised("IndexError")
    ELSE IF ~lookup.items[1].has_statistics THEN Raised("KeyError")
    ELSE Returned(lookup.items[1].statistics)

\* lines 60-68: the record of one hit
VideoRecord(item, statistics) ==
    [judul |-> item.title,
     channel |-> item.channelTitle,
     upload_date |-> BeforeT(item.publishedAt),
     views |-> Count(statistics, "viewCount"),
     comment_count |-> Count(statistics, "commentCount"),
     url |-> WatchUrl(item.videoId),
     subtitle |-> "no"]

\* lines 46-70: the loop over the hits, from item i on
RECURSIVE SearchLoop(_, _, _)
SearchLoop(items, i, results) ==
    IF i > Len(items) THEN Returned(results)
    ELSE LET stats == Statistics(items[i].lookup)
         IN  IF stats.kind = "raise" THEN stats
             ELSE SearchLoop(items, i + 1, Append(results, VideoRecord(items[i], stats.value)))

search_youtube_online(query, max_results, has_key, response) ==
    IF ~has_key THEN Raised("RuntimeError")
    ELSE IF response.kind = "exception" THEN Raised("HttpError")
    ELSE SearchLoop(IF response.has_items THEN response.items ELSE <<>>, 1, <<>>)

\* ------------------------------------------------------------ sample data
\* "https://youtu.be/"
ShortPrefix ==
    <<"h", "t", "t", "p", "s", ":", "/", "/", "y", "o", "u", "t", "u", ".", "b",
      "e", "/">>

IdA == <<"d", "Q", "w", "4", "w", "9", "W", "g", "X", "c", "Q">>
IdB == <<"a", "_", "b", "-", "c", "0", "1", "2", "3", "4", "5">>
\* a video id the search API could hand out that is no 11-character token
IdBad == <<"x", "y", "z">>

VideoIds == {IdA, IdB, IdBad}

UrlA == WatchUrl(IdA)
UrlB == WatchUrl(IdB)
UrlBad == WatchUrl(IdBad)
UrlShort == ShortPrefix \o IdA

Urls == {UrlA, UrlB, UrlBad, UrlShort}

\* url shapes of a video besides the watch page: the embed page of the
\* cookie-less host, a watch page whose v parameter is not the first one,
\* and a start-time parameter after the id
EmbedPrefix ==
    <<"h", "t", "t", "p", "s", ":", "/", "/", "y", "o", "u", "t", "u", "b", "e",
    "-", "n", "o", "c", "o", "o", "k", "i", "e", ".", "c", "o", "m", "/", "e",
    "m", "b", "e", "d", "/">>

SharePrefix ==
    <<"h", "t", "t", "p", "s", ":", "/", "/", "w", "w", "w", ".", "y", "o", "u",
    "t", "u", "b", "e", ".", "c", "o", "m", "/", "w", "a", "t", "c", "h", "?",
    "f", "e", "a", "t", "u", "r", "e", "=", "s", "h", "a", "r", "e", "&", "v",
    "=">>

TimeSuffix ==
    <<"&", "t", "=", "4", "2", "s">>

\* a YouTube page that is no video
UrlFeed ==
    <<"h", "t", "t", "p", "s", ":", "/", "/", "w", "w", "w", ".", "y", "o", "u",
    "t", "u", "b", "e", ".", "c", "o", "m", "/", "f", "e", "e", "d", "/", "s",
    "u", "b", "s", "c", "r", "i", "p", "t", "i", "o", "n", "s">>

\* the id of a url that is the page of no video
NoId == <<>>

\* a url together with the id of the video it is the page of
Case(url, id) == [url |-> url, id |-> id]

ExtractCases ==
    { Case(UrlA, IdA), Case(UrlB, IdB), Case(UrlShort, IdA),
      Case(UrlA \o TimeSuffix, IdA),
      Case(SharePrefix \o IdB, IdB),
      Case(EmbedPrefix \o IdA, IdA),
      Case(UrlBad, NoId), Case(UrlFeed, NoId) }

ExtractUrls == { c.url : c \in ExtractCases }

Seg(text) == [text |-> text]

CaptionLists ==
    { <<>>,
      <<Seg(<<" ">>)>>,
      <<Seg(<<"h", "i">>)>>,
      <<Seg(<<"h", "i">>), Seg(<<" ", "\n">>), Seg(<<"y", "o", " ">>)>> }

Primary(kind, data) == [kind |-> kind, data |-> data]

PrimaryOutcomes ==
    {Primary(k, <<>>) : k \in {"TranscriptsDisabled", "NoTranscriptFound", "Exception"}}
    \cup {Primary("ok", d) : d \in CaptionLists}

Http(kind, status, body) == [kind |-> kind, status |-> status, body |-> body]

TextOf(t) == [k \in {"text"} |-> t]
MetaOf(title, author) == [k \in {"title", "author_name"} |-> IF k = "title" THEN title ELSE author]

InvalidBody == Body("invalid", NoFields, <<>>)

ProxyBodies ==
    { InvalidBody,
      Body("object", TextOf(<<"o", "k">>), <<>>),
      Body("object", TextOf(<<>>), <<>>),
      Body("object", NoFields, <<>>),
      Body("array", NoFields, <<"text">>),
      Body("array", NoFields, <<>>),
      Body("number", NoFields, <<>>) }

ProxyOutcomes ==
    {Http("exception", 0, InvalidBody)}
    \cup {Http("response", HTTP_OK, b) : b \in ProxyBodies}
    \cup {Http("response", 404, b) : b \in {InvalidBody, Body("object", TextOf(<<"o", "k">>), <<>>)}}

MetaBodies ==
    { InvalidBody,
      Body("object", MetaOf(<<"T">>, <<"A">>), <<>>),
      Body("object", [k \in {"title"} |-> <<"T">>], <<>>),
      Body("object", NoFields, <<>>),
      Body("array", NoFields, <<>>) }

MetaOutcomes ==
    {Http("exception", 0, InvalidBody)}
    \cup {Http("response", HTTP_OK, b) : b \in MetaBodies}
    \cup {Http("response", 404, InvalidBody)}

\* the provider answers used for the videos of a batch
BatchAnswers ==
    { [primary |-> Primary("ok", <<Seg(<<"h", "i">>)>>),
       proxy |-> Http("exception", 0, InvalidBody),
       meta |-> Http("exception", 0, InvalidBody)],
      [primary |-> Primary("NoTranscriptFound", <<>>),
       proxy |-> Http("response", 404, InvalidBody),
       meta |-> Http("response", HTTP_OK, Body("object", MetaOf(<<"T">>, <<"A">>), <<>>))],
      [primary |-> Primary("TranscriptsDisabled", <<>>),
       proxy |-> Http("exception", 0, InvalidBody),
       meta |-> Http("response", 404, InvalidBody)] }

StatItem(has, statistics) == [has_statistics |-> has, statistics |-> statistics]

Lookup(kind, items) == [kind |-> kind, items |-> items]

FullStatistics ==
    [k \in {"viewCount", "commentCount"} |-> IF k = "viewCount" THEN <<"1", "2">> ELSE <<"3">>]

OkLookup == Lookup("ok", <<StatItem(TRUE, FullStatistics)>>)

LookupOutcomes ==
    { Lookup("exception", <<>>),
      Lookup("ok", <<>>),
      Lookup("ok", <<StatItem(FALSE, NoFields)>>),
      Lookup("ok", <<StatItem(TRUE, NoFields)>>),
      OkLookup }

\* one hit of the search response, with the answer of its statistics request
Hit(video_id, lookup) ==
    [videoId |-> video_id,
     title |-> <<"T">>,
     channelTitle |-> <<"C">>,
     publishedAt |-> <<"2", "0", "2", "4", "-", "0", "1", "-", "0", "2", "T", "0", "3", "Z">>,
     lookup |-> lookup]

SeqsUpTo(S, n) == UNION {[1..k -> S] : k \in 0..n}

\* the video records a search hands out for the sample ids
SampleVideos == {VideoRecord(Hit(id, OkLookup), FullStatistics) : id \in VideoIds}

WellFormed(urls) == {u \in urls : extract_video_id(u).kind = "return"}

UrlsOf(videos) == {videos[i].url : i \in 1..Len(videos)}

Entry(t, fields) == [t |-> t, fields |-> fields]

CommentEntries ==
    { Entry("dict", [k \in {"text", "author"} |-> IF k = "text" THEN <<" ", "h", "i", " ">> ELSE <<"u">>]),
      Entry("dict", [k \in {"text", "author"} |-> IF k = "text" THEN <<" ", "\n">> ELSE <<"u">>]),
      Entry("dict", [k \in {"text"} |-> <<"y", "o">>]),
      Entry("dict", [k \in {"author"} |-> <<"w">>]),
      Entry("bad", NoFields) }

Info(kind, has_comments, comments) ==
    [kind |-> kind, has_comments |-> has_comments, comments |-> comments]

InfoOutcomes ==
    {Info("exception", FALSE, <<>>), Info("ok", FALSE, <<>>)}
    \cup {Info("ok", TRUE, cs) : cs \in SeqsUpTo(CommentEntries, MaxEntries)}

Queries == { <<>>, <<" ">>, <<"b", "o", "r">> }

Response(kind, has_items, items) == [kind |-> kind, has_items |-> has_items, items |-> items]

SearchHits == {Hit(id, lookup) : id \in {IdA, IdB}, lookup \in LookupOutcomes}

Responses(max_results) ==
    {Response("exception", FALSE, <<>>), Response("ok", FALSE, <<>>)}
    \cup {Response("ok", TRUE, items) : items \in SeqsUpTo(SearchHits, max_results)}

\* ---------------------------------------------------------------- actions
NoCall == [op |-> "none"]

Init ==
    /\ session_state = NoDict
    /\ call = NoCall
    /\ ret = Returned(<<>>)

\* a direct call of extract_video_id
CallExtract ==
    /\ call = NoCall
    /\ \E url \in ExtractUrls :
        /\ call' = [op |-> "extract_video_id", url |-> url]
        /\ ret' = extract_video_id(url)
        /\ UNCHANGED session_state

\* a direct call of fetch_transcript_online
CallFetchTranscript ==
    /\ call = NoCall
    /\ \E url \in Urls, primary \in PrimaryOutcomes, proxy \in ProxyOutcomes, meta \in MetaOutcomes :
        /\ call' = [op |-> "fetch_transcript_online", video_url |-> url,
                    primary |-> primary, proxy |-> proxy, meta |-> meta]
        /\ ret' = fetch_transcript_online(url, primary, proxy, meta)
        /\ UNCHANGED session_state

\* a direct call of fetch_multiple_transcripts
CallFetchMultiple ==
    /\ call = NoCall
    /\ \E videos \in SeqsUpTo(SampleVideos, MaxVideos), limit \in 0..MaxLimit :
        \E world \in [WellFormed(UrlsOf(videos)) -> BatchAnswers] :
            LET r == fetch_multiple_transcripts(session_state, videos, limit, world)
            IN  /\ call' = [op |-> "fetch_multiple_transcripts", videos |-> videos,
                            limit |-> limit, world |-> world]
                /\ ret' = [kind |-> r.kind, value |-> r.value, progress |-> r.progress]
                /\ session_state' = r.state

\* a direct call of fetch_comments_online
CallFetchComments ==
    /\ call = NoCall
    /\ \E url \in {UrlA, UrlBad}, max_comments \in 1..MaxComments, info \in InfoOutcomes :
        /\ call' = [op |-> "fetch_comments_online", video_url |-> url,
                    max_comments |-> max_comments, info |-> info]
        /\ ret' = fetch_comments_online(url, max_comments, info)
        /\ UNCHANGED session_state

\* a direct call of search_youtube_online
CallSearch ==
    /\ call = NoCall
    /\ \E query \in Queries, max_results \in 1..MaxResults, has_key \in BOOLEAN :
        \E response \in IF has_key THEN Responses(max_results)
                        ELSE {Response("exception", FALSE, <<>>)} :
            /\ call' = [op |-> "search_youtube_online", query |-> query,
                        max_results |-> max_results, has_key |-> has_key,
                        response |-> response]
            /\ ret' = search_youtube_online(query, max_results, has_key, response)
            /\ UNCHANGED session_state

\* the caller drops the result of the last call
Discard ==
    /\ call # NoCall
    /\ call' = NoCall
    /\ ret' = Returned(<<>>)
    /\ UNCHANGED session_state

Next ==
    \/ CallExtract
    \/ CallFetchTranscript
    \/ CallFetchMultiple
    \/ CallFetchComments
    \/ CallSearch
    \/ Discard

Spec == Init /\ [][Next]_vars

\* ------------------------------------------- app_gripandreview_online.py
\* lines 109-117 of yt_search_online.py; comments_dict is <<>> for None
save_results_to_session(state, videos, comments_dict) ==
    LET with_videos == IF "videos" \in DOMAIN state THEN state ELSE Put(state, "videos", videos)
    IN  IF comments_dict # <<>> THEN Put(with_videos, "comments", comments_dict) ELSE with_videos

\* lines 95-98: list(st.session_state["transcripts"].keys())[0] fails on {}
Tab1DisplayFails(state) ==
    /\ "videos" \in DOMAIN state
    /\ "transcripts" \in DOMAIN state
    /\ DOMAIN state["transcripts"] = {}

\* lines 127-131: list(st.session_state["comments"].keys())[0] fails on {}
Tab2DisplayFails(state) ==
    /\ "videos" \in DOMAIN state
    /\ "comments" \in DOMAIN state
    /\ DOMAIN state["comments"] = {}

\* the outcome of a script run whose handlers left the session in state:
\* the uncaught exception of a sample display ends the run
Rendered(state) ==
    IF Tab1DisplayFails(state) \/ Tab2DisplayFails(state) THEN Raised("IndexError")
    ELSE Returned(<<>>)

\* lines 72-82: the search button's handler
SearchHandler(state, keyword, limit, response) ==
    IF Strip(keyword) = <<>> THEN state
    ELSE LET results == search_youtube_online(keyword, limit, TRUE, response)
         IN  IF results.kind = "raise" THEN state
             ELSE Put(save_results_to_session(state, results.value, <<>>),
                      "videos", results.value)

\* lines 89-93: the transcript button's handler; an exception of the batch
\* ends the run before line 92
TranscriptHandler(state, world) ==
    LET videos == state["videos"]
        r == fetch_multiple_transcripts(state, videos, Len(videos), world)
    IN  IF r.kind = "raise"
        THEN [state |-> r.state, outcome |-> Raised(r.value), progress |-> r.progress]
        ELSE [state |-> Put(r.state, "transcripts", r.value),
              outcome |-> Rendered(Put(r.state, "transcripts", r.value)),
              progress |-> r.progress]

\* lines 119-123: the loop over the videos, from video i on
RECURSIVE AppCommentLoop(_, _, _, _, _)
AppCommentLoop(videos, i, max_comments, infos, acc) ==
    IF i > Len(videos) THEN acc
    ELSE LET url == videos[i].url
             comments == fetch_comments_online(url, max_comments, infos[url])
         IN  AppCommentLoop(videos, i + 1, max_comments, infos,
                 [value |-> Put(acc.value, url, comments.value),
                  progress |-> Append(acc.progress, Fraction(i, Len(videos)))])

\* lines 116-125: the comment button's handler
CommentHandler(state, max_comments, infos) ==
    LET all == AppCommentLoop(state["videos"], 1, max_comments, infos,
                              [value |-> NoDict, progress |-> <<>>])
    IN  [state |-> Put(state, "comments", all.value),
         outcome |-> Rendered(Put(state, "comments", all.value)),
         progress |-> all.progress]

AppHits == {Hit(id, OkLookup) : id \in VideoIds}

AppResponses ==
    {Response("exception", FALSE, <<>>)}
    \cup {Response("ok", TRUE, items) : items \in SeqsUpTo(AppHits, MaxResults)}

\* the provider answers used in the app's transcript batch
AppAnswers == {a \in BatchAnswers : a.primary.kind = "ok" \/ a.meta.kind = "exception"}

AppInfos ==
    { Info("exception", FALSE, <<>>),
      Info("ok", TRUE, << Entry("dict", [k \in {"text"} |-> <<"y", "o">>]) >>) }

\* what a script run leaves: how it ended and the progress values it reported
Run(outcome, progress) ==
    [kind |-> outcome.kind, value |-> outcome.value, progress |-> progress]

\* a script run with the search button pressed
AppSearch ==
    \E keyword \in Queries :
        \E response \in IF Strip(keyword) = <<>> THEN {Response("exception", FALSE, <<>>)}
                        ELSE AppResponses :
            LET state == SearchHandler(session_state, keyword, SliderMin, response)
            IN  /\ session_state' = state
                /\ call' = [op |-> "app", button |-> "search"]
                /\ ret' = Run(Rendered(state), <<>>)

\* a script run with the transcript button pressed
AppFetchTranscripts ==
    /\ "videos" \in DOMAIN session_state
    /\ \E world \in [WellFormed(UrlsOf(session_state["videos"])) -> AppAnswers] :
        LET h == TranscriptHandler(session_state, world)
        IN  /\ session_state' = h.state
            /\ call' = [op |-> "app", button |-> "transcripts"]
            /\ ret' = Run(h.outcome, h.progress)

\* a script run with the comment button pressed; tab 2 is reached only when
\* tab 1 rendered
AppFetchComments ==
    /\ "videos" \in DOMAIN session_state
    /\ ~Tab1DisplayFails(session_state)
    /\ \E infos \in [UrlsOf(session_state["videos"]) -> AppInfos] :
        LET h == CommentHandler(session_state, CommentSliderMin, infos)
        IN  /\ session_state' = h.state
            /\ call' = [op |-> "app", button |-> "comments"]
            /\ ret' = Run(h.outcome, h.progress)

AppNext ==
    \/ AppSearch
    \/ AppFetchTranscripts
    \/ AppFetchComments

AppSpec == Init /\ [][AppNext]_vars

\* ------------------------------------------------------------------ claims
IsFetch == call.op = "fetch_transcript_online"

\* the primary provider returned caption segments
PrimaryOk == call.primary.kind = "ok"

\* the proxy answered HTTP 200 with a JSON object that has a text member
ProxyOk ==
    /\ call.proxy.kind = "response"
    /\ call.proxy.status = HTTP_OK
    /\ call.proxy.body.json = "object"
    /\ "text" \in DOMAIN call.proxy.body.fields

\* the metadata lookup answered with a JSON object
MetaOk == call.meta.kind = "response" /\ call.meta.body.json = "object"

MetaField(key) ==
    IF key \in DOMAIN call.meta.body.fields THEN call.meta.body.fields[key] ELSE <<>>

\* C1: for a well-formed URL the returned text is that of the first provider
\* that succeeds in the order primary, proxy, metadata: the proxy's text
\* member exactly when the primary fails and the proxy succeeds, "<title> -
\* <author>" when both fail and the metadata lookup succeeds, and the empty
\* string when all three fail.
C1_FirstSuccessWins ==
    (IsFetch /\ extract_video_id(call.video_url).kind = "return") =>
        /\ ret.kind = "return"
        /\ PrimaryOk => ret.value = Join(NonBlankTexts(call.primary.data))
        /\ (~PrimaryOk /\ ProxyOk) => ret.value = call.proxy.body.fields["text"]
        /\ (~PrimaryOk /\ ~ProxyOk /\ MetaOk) =>
               ret.value = MetaField("title") \o <<" ", "-", " ">> \o MetaField("author_name")
        /\ (~PrimaryOk /\ ~ProxyOk /\ ~MetaOk) => ret.value = <<>>

\* C1 witness: primary and proxy failed and the metadata placeholder was returned
C1_Witness ==
    /\ IsFetch /\ ~PrimaryOk /\ ~ProxyOk /\ MetaOk
    /\ call.proxy.kind = "response" /\ call.proxy.status # HTTP_OK
    /\ ret.kind = "return"
    /\ ret.value = <<"T", " ", "-", " ", "A">>

Chars == IdChars \cup Whitespace \cup {":", "/", ".", "?", "="}

\* a Python str
IsStr(v) == v \in Seq(Chars)

\* C4: fetch_transcript_online raises only for a URL with no extractable
\* video id, and then before any provider is contacted; for a well-formed
\* URL it returns a string whatever the three providers answer.
C4_RaisesOnlyForMalformedUrl ==
    IsFetch =>
        /\ ret.kind \in {"return", "raise"}
        /\ ret.kind = "raise" <=> extract_video_id(call.video_url).kind = "raise"
        /\ ret.kind = "raise" => (ret.value = "ValueError" /\ ret.contacted = <<>>)
        /\ ret.kind = "return" => IsStr(ret.value)

\* C4 witness: a well-formed URL, every provider failing, and a returned string
C4_Witness ==
    /\ IsFetch
    /\ call.video_url = UrlShort
    /\ call.primary.kind = "Exception"
    /\ call.proxy.kind = "exception"
    /\ call.meta.kind = "response" /\ call.meta.body.json = "invalid"
    /\ ret.kind = "return"
    /\ ret.contacted = <<"primary", "proxy", "metadata">>

\* the metadata lookup returned parsable JSON
MetaParsable == call.meta.kind = "response" /\ call.meta.body.json # "invalid"

\* C5 as stated: the result is empty if and only if all three providers
\* failed (a provider succeeded: primary returned segments, proxy answered 200
\* with a text member, metadata returned parsable JSON).
C5_EmptyIffAllFailed ==
    (IsFetch /\ ret.kind = "return") =>
        (ret.value = <<>> <=> (~PrimaryOk /\ ~ProxyOk /\ ~MetaParsable))

\* every caption segment of the primary answer is blank
PrimaryBlank == \A i \in 1..Len(call.primary.data) : Strip(call.primary.data[i].text) = <<>>

\* C5 amended: the result is empty exactly when all three providers failed
\* (the metadata lookup failing also when its JSON is not an object), or when
\* the first provider that succeeded had nothing to give: a primary answer
\* with no non-blank segment, or a proxy text member that is itself empty.
C5_EmptyIffNothingToGive ==
    (IsFetch /\ ret.kind = "return") =>
        (ret.value = <<>> <=>
            \/ PrimaryOk /\ PrimaryBlank
            \/ ~PrimaryOk /\ ProxyOk /\ call.proxy.body.fields["text"] = <<>>
            \/ ~PrimaryOk /\ ~ProxyOk /\ ~MetaOk)

\* C5 witness: the primary provider succeeded with blank segments only
C5_Witness ==
    /\ IsFetch /\ PrimaryOk /\ PrimaryBlank
    /\ call.primary.data # <<>>
    /\ ret.kind = "return"
    /\ ret.value = <<>>

IsBatch == call.op = "fetch_multiple_transcripts"

\* what fetch_transcript_online gives for the video at position i of the batch
OwnOutcome(i) ==
    LET url == call.videos[i].url
        a == AnswerFor(call.world, url)
    IN  fetch_transcript_online(url, a.primary, a.proxy, a.meta)

\* C2: over a batch of N videos with limit >= N, fetch_multiple_transcripts
\* never raises and returns one entry per input URL, empty for a malformed
\* URL and the item's own fetch outcome for every other.
C2_BatchSurvivesMalformedUrl ==
    (IsBatch /\ call.limit >= Len(call.videos)) =>
        /\ ret.kind = "return"
        /\ DOMAIN ret.value = UrlsOf(call.videos)
        /\ \A i \in 1..Len(call.videos) :
               ret.value[call.videos[i].url] =
                   IF OwnOutcome(i).kind = "raise" THEN <<>> ELSE OwnOutcome(i).value

\* the number of videos a batch call iterates over
Iterated == Min(call.limit, Len(call.videos))

\* C3: in a batch that processes N items, progress is reported once after
\* each item, the k-th value is k/N, the values never decrease and the last
\* one is 1.
C3_ProgressIsKOverN ==
    (IsBatch /\ ret.kind = "return") =>
        /\ Len(ret.progress) = Iterated
        /\ \A k \in 1..Len(ret.progress) :
               /\ ret.progress[k][2] > 0
               /\ ret.progress[k][1] * Iterated = k * ret.progress[k][2]
        /\ \A k \in 2..Len(ret.progress) :
               ret.progress[k - 1][1] * ret.progress[k][2]
                   <= ret.progress[k][1] * ret.progress[k - 1][2]
        /\ ret.progress # <<>> =>
               ret.progress[Len(ret.progress)][1] = ret.progress[Len(ret.progress)][2]

IsComments == call.op = "fetch_comments_online"

\* the comment list the provider returned
Provided == IF call.info.kind = "ok" /\ call.info.has_comments THEN call.info.comments ELSE <<>>

\* entry i of the provider's list is a well-formed comment with non-blank
\* text, and s is its rendering
RendersAs(i, s) ==
    /\ Provided[i].t = "dict"
    /\ "text" \in DOMAIN Provided[i].fields
    /\ Strip(Provided[i].fields["text"]) # <<>>
    /\ s = (IF "author" \in DOMAIN Provided[i].fields THEN Provided[i].fields["author"] ELSE Anonim)
           \o <<":", " ">> \o Strip(Provided[i].fields["text"])

\* C6: the output of fetch_comments_online has at most max_comments entries,
\* none with blank text, in the relative order of the provider's list.
C6_CommentsBoundedOrdered ==
    IsComments =>
        /\ Len(ret.value) <= call.max_comments
        /\ \E f \in [1..Len(ret.value) -> 1..Len(Provided)] :
               /\ \A i, j \in 1..Len(ret.value) : i < j => f[i] < f[j]
               /\ \A i \in 1..Len(ret.value) : RendersAs(f[i], ret.value[i])

\* C6 witness: the provider returned more than max_comments entries, one of the
\* first max_comments was blank and was dropped
C6_Witness ==
    /\ IsComments
    /\ call.max_comments = 2
    /\ Len(Provided) = 3
    /\ \A i \in 1..3 : Provided[i].t = "dict"
    /\ Len(ret.value) = 1
    /\ ret.value[1] = <<"A", "n", "o", "n", "i", "m", ":", " ", "y", "o">>

\* the positions among the first max_comments whose entry is malformed
BadPositions ==
    {i \in 1..Min(call.max_comments, Len(Provided)) : Provided[i].t # "dict"}

\* the provider failed: the extraction raised, or an entry that is processed
\* is malformed
ProviderFailed == call.info.kind = "exception" \/ BadPositions # {}

BeforeFailure ==
    LET first == CHOOSE i \in BadPositions : \A j \in BadPositions : i <= j
    IN  SubSeq(Provided, 1, first - 1)

IsSearch == call.op = "search_youtube_online"

\* the hits of the search response
Hits == IF call.response.kind = "ok" /\ call.response.has_items THEN call.response.items ELSE <<>>

\* the statistics lookup of a hit failed or had no statistics object
LookupMissing(hit) ==
    \/ hit.lookup.kind = "exception"
    \/ hit.lookup.items = <<>>
    \/ ~hit.lookup.items[1].has_statistics

\* C8: a failed or missing statistics lookup leaves its video in the result
\* with views and comment_count 0 and does not fail the search; every hit is
\* returned, in order.
C8_MissingStatisticsDegrade ==
    (IsSearch /\ call.has_key /\ call.response.kind = "ok") =>
        /\ ret.kind = "return"
        /\ Len(ret.value) = Len(Hits)
        /\ \A i \in 1..Len(Hits) :
               /\ ret.value[i].url = WatchUrl(Hits[i].videoId)
               /\ LookupMissing(Hits[i]) =>
                      (ret.value[i].views = 0 /\ ret.value[i].comment_count = 0)

\* C9: a keyword that is empty or blank after trimming makes the search fail
\* with an invalid-query error instead of returning a result list.
C9_BlankQueryRejected ==
    (IsSearch /\ call.has_key /\ Strip(call.query) = <<>>) =>
        (ret.kind = "raise" /\ ret.value \notin {"RuntimeError", "HttpError", "IndexError", "KeyError"})

\* the keys of a mapping of the session, none when it is not there yet
KeysOf(name) == IF name \in DOMAIN session_state THEN DOMAIN session_state[name] ELSE {}

\* the urls of the current video list
CurrentUrls == IF "videos" \in DOMAIN session_state THEN UrlsOf(session_state["videos"]) ELSE {}

\* C10: after any sequence of search, fetch-transcripts and fetch-comments
\* runs, every key of session_state["transcripts"] and of
\* session_state["comments"] is the url of a video of the current
\* session_state["videos"].
C10_NoOrphanedKeys ==
    /\ KeysOf("transcripts") \subseteq CurrentUrls
    /\ KeysOf("comments") \subseteq CurrentUrls

CoreOps ==
    {"extract_video_id", "fetch_transcript_online", "fetch_multiple_transcripts",
     "fetch_comments_online", "search_youtube_online"}

\* C11 as stated: no call of the fetch core changes the session mappings.
C11_CoreNeverMutatesSession ==
    [][call'.op \in CoreOps => session_state' = session_state]_vars

\* the transcripts mapping of a session, empty when it is not there yet
TranscriptsOf(state) == IF "transcripts" \in DOMAIN state THEN state["transcripts"] ELSE NoDict

\* mapping old with the entries of new written over it
Merged(old, new) ==
    [k \in (DOMAIN old) \cup (DOMAIN new) |-> IF k \in DOMAIN new THEN new[k] ELSE old[k]]

\* C11 amended: extract_video_id, fetch_transcript_online,
\* fetch_comments_online and search_youtube_online leave the session
\* unchanged; fetch_multiple_transcripts writes every transcript it fetches
\* into session_state["transcripts"], keeping the entries of other urls, and
\* changes no other mapping of the session.
C11_OnlyBatchWritesTranscripts ==
    [][/\ call'.op \in CoreOps \ {"fetch_multiple_transcripts"} =>
              session_state' = session_state
       /\ call'.op = "fetch_multiple_transcripts" =>
              /\ DOMAIN session_state' \subseteq (DOMAIN session_state) \cup {"transcripts"}
              /\ \A k \in (DOMAIN session_state) \ {"transcripts"} :
                     k \in DOMAIN session_state' /\ session_state'[k] = session_state[k]
              /\ (ret'.kind = "return" /\ ret'.value = NoDict) =>
                     session_state' = session_state
              /\ (ret'.kind = "return" /\ ret'.value # NoDict) =>
                     session_state'["transcripts"] =
                         Merged(TranscriptsOf(session_state), ret'.value)]_vars

\* C11 witness: a batch call returned one transcript and the session holds
\* it together with an entry an earlier call wrote
C11_Witness ==
    /\ call.op = "fetch_multiple_transcripts"
    /\ ret.kind = "return"
    /\ Cardinality(DOMAIN ret.value) = 1
    /\ "transcripts" \in DOMAIN session_state
    /\ Cardinality(DOMAIN session_state["transcripts"]) = 2
    /\ \A k \in DOMAIN ret.value : session_state["transcripts"][k] = ret.value[k]

IsExtract == call.op = "extract_video_id"

\* C12: extract_video_id returns exactly the id of the video for every
\* supported url shape (...v=<id>... or .../<id>), whatever the host name,
\* the path segments and the trailing parameters are, and raises the
\* malformed-url error for every url that holds no video id.
C12_ExactId ==
    \A c \in ExtractCases :
        (IsExtract /\ call.url = c.url) =>
            ret = IF c.id = NoId THEN Raised("ValueError") ELSE Returned(c.id)

\* C13: within one call the providers are contacted in the order primary,
\* proxy, metadata, each at most once: the proxy only after the primary
\* failed, the metadata lookup only after both failed, and none after an
\* earlier one succeeded (none at all when the url is malformed).
C13_ProvidersInOrder ==
    IsFetch =>
        /\ ret.kind = "raise" => ret.contacted = <<>>
        /\ ret.kind = "return" =>
               ret.contacted =
                   IF PrimaryOk THEN <<"primary">>
                   ELSE IF ProxyOk THEN <<"primary", "proxy">>
                   ELSE <<"primary", "proxy", "metadata">>

\* C13 witness: the primary failed, the proxy succeeded and the metadata
\* lookup, which would have answered, was not contacted
C13_Witness ==
    /\ IsFetch
    /\ ret.kind = "return"
    /\ ~PrimaryOk
    /\ ProxyOk
    /\ MetaOk
    /\ ret.contacted = <<"primary", "proxy">>

\* the messages that report the outcome of an attempt on a provider
OutcomeMessages(provider) ==
    CASE provider = "primary" ->
             {"primary:found", "primary:disabled", "primary:notfound", "primary:error"}
      [] provider = "proxy" -> {"proxy:ok", "proxy:error"}
      [] provider = "metadata" -> {"meta:ok", "meta:error"}

Logged == { ret.log[i] : i \in 1..Len(ret.log) }

\* C14: every provider attempt of a call emits at least one diagnostic
\* message that reports its outcome before the next provider is tried or the
\* call returns, also when the proxy answers with a status other than 200 or
\* with a body that has no text member.
C14_EveryAttemptLogged ==
    IsFetch =>
        \A i \in 1..Len(ret.contacted) :
            OutcomeMessages(ret.contacted[i]) \cap Logged # {}

\* C15: in every session state the main app reaches, a transcripts or
\* comments mapping that is present has at least one key, so neither sample
\* display fails; this holds after any sequence of searches and batch
\* fetches, a search that returns no video included.
C15_MappingsNonEmpty ==
    /\ \A name \in {"transcripts", "comments"} :
           name \in DOMAIN session_state => DOMAIN session_state[name] # {}
    /\ ~(ret.kind = "raise" /\ ret.value = "IndexError")

====
